---------------------------- MODULE Spec2Model ----------------------------
(***************************************************************************)
(* State-machine model of the OAuth2 login flow of sso-web-app:            *)
(* login initiation, the provider callbacks, account resolution against    *)
(* the users table, the per-client session store, the protected           *)
(* dashboard and logout.                                                   *)
(*                                                                         *)
(* A callback is a process: it suspends at every .await that touches the   *)
(* session store, the provider or the database, so two callbacks can       *)
(* interleave between any two of those points.  Each request id is used    *)
(* for one request; finished requests stay in reqs as the history.         *)
(***************************************************************************)
EXTENDS Naturals, Sequences, FiniteSets, TLC

(* ---------------------------- bounds ----------------------------------- *)
\* number of login initiations (CSRF tokens minted) in one behaviour
MaxTokens == 2
\* latest clock value chrono::Utc::now() can return
MaxTime == 2

\* client session identifiers (the sso_session cookie)
Sessions == {"s1", "s2"}

(* ---------------------------- Option<T> -------------------------------- *)
None == << >>
Some(x) == << x >>
IsSome(o) == o # None
Unwrap(o) == o[1]
Opt(S) == {None} \cup {Some(x) : x \in S}

(* ---------------------------- inputs ----------------------------------- *)
Providers == {"microsoft", "github"}

\* a state value no login initiation ever issued
Forged == 0
Tokens == 1..MaxTokens

\* the external identities the providers can report (Microsoft: string id,
\* GitHub: u64 id)
MsIds == {"7"}
GhIds == {7}

MicrosoftProfiles ==
    [id : MsIds,
     display_name : Opt({"Alice"}),
     user_principal_name : Opt({"alice@contoso.com"}),
     mail : Opt({"alice@contoso.com"})]

GitHubProfiles ==
    [id : GhIds,
     login : {"alice"},
     name : Opt({"Alice"}),
     email : Opt({"pub@x.com"}),
     avatar_url : Opt({"https://x.com/a.png"})]

GhEmail(e, p, v) == [email |-> e, primary |-> p, verified |-> v]

\* bodies the /user/emails endpoint can answer with
EmailLists ==
    { << >>,
      << GhEmail("a@x.com", FALSE, TRUE), GhEmail("b@x.com", TRUE, TRUE) >>,
      << GhEmail("a@x.com", TRUE, FALSE) >> }

\* query strings a client can send to a callback route
Queries ==
    [code : Opt({"code"}),
     state : Opt(Tokens \cup {Forged}),
     error : Opt({"access_denied"})]

(* ---------------------------- strings ---------------------------------- *)
Digits == << "0", "1", "2", "3", "4", "5", "6", "7", "8", "9" >>

\* u64::to_string
RECURSIVE U64ToString(_)
U64ToString(n) ==
    IF n < 10 THEN Digits[n + 1]
    ELSE U64ToString(n \div 10) \o Digits[(n % 10) + 1]

\* characters urlencoding::encode leaves as they are
Unreserved ==
    { "A","B","C","D","E","F","G","H","I","J","K","L","M",
      "N","O","P","Q","R","S","T","U","V","W","X","Y","Z",
      "a","b","c","d","e","f","g","h","i","j","k","l","m",
      "n","o","p","q","r","s","t","u","v","w","x","y","z",
      "0","1","2","3","4","5","6","7","8","9","-","_",".","~" }

\* percent-encoding of the other characters that occur
PercentOf(c) ==
    CASE c = " " -> "%20"
      [] c = ":" -> "%3A"
      [] c = "/" -> "%2F"
      [] c = "?" -> "%3F"
      [] c = "=" -> "%3D"
      [] c = "&" -> "%26"

\* urlencoding::encode on a string given as its sequence of characters
RECURSIVE UrlEncode(_)
UrlEncode(cs) ==
    IF cs = << >> THEN ""
    ELSE (IF Head(cs) \in Unreserved THEN Head(cs) ELSE PercentOf(Head(cs)))
         \o UrlEncode(Tail(cs))

(* ---------------------------- messages --------------------------------- *)
\* the user-facing messages, each as its sequence of characters
\* "Microsoft authentication failed. Please try again."
MsgMicrosoftFailed ==
    << "M","i","c","r","o","s","o","f","t"," ","a","u","t","h",
       "e","n","t","i","c","a","t","i","o","n"," ","f","a","i",
       "l","e","d","."," ","P","l","e","a","s","e"," ","t","r",
       "y"," ","a","g","a","i","n","." >>
\* "GitHub authentication failed. Please try again."
MsgGitHubFailed ==
    << "G","i","t","H","u","b"," ","a","u","t","h","e","n","t",
       "i","c","a","t","i","o","n"," ","f","a","i","l","e","d",
       "."," ","P","l","e","a","s","e"," ","t","r","y"," ","a",
       "g","a","i","n","." >>
\* "Security error during login. Please try again."
MsgStateMismatch ==
    << "S","e","c","u","r","i","t","y"," ","e","r","r","o","r",
       " ","d","u","r","i","n","g"," ","l","o","g","i","n",".",
       " ","P","l","e","a","s","e"," ","t","r","y"," ","a","g",
       "a","i","n","." >>
\* "Failed to complete login. Please try again."
MsgTokenExchange ==
    << "F","a","i","l","e","d"," ","t","o"," ","c","o","m","p",
       "l","e","t","e"," ","l","o","g","i","n","."," ","P","l",
       "e","a","s","e"," ","t","r","y"," ","a","g","a","i","n",
       "." >>
\* "Failed to retrieve your profile. Please try again."
MsgProfileFetch ==
    << "F","a","i","l","e","d"," ","t","o"," ","r","e","t","r",
       "i","e","v","e"," ","y","o","u","r"," ","p","r","o","f",
       "i","l","e","."," ","P","l","e","a","s","e"," ","t","r",
       "y"," ","a","g","a","i","n","." >>
\* "Invalid login provider selected."
MsgInvalidProvider ==
    << "I","n","v","a","l","i","d"," ","l","o","g","i","n"," ",
       "p","r","o","v","i","d","e","r"," ","s","e","l","e","c",
       "t","e","d","." >>
\* "Login was incomplete. Please try again."
MsgMissingAuthCode ==
    << "L","o","g","i","n"," ","w","a","s"," ","i","n","c","o",
       "m","p","l","e","t","e","."," ","P","l","e","a","s","e",
       " ","t","r","y"," ","a","g","a","i","n","." >>
\* "Authentication failed. Please try again."
MsgOther ==
    << "A","u","t","h","e","n","t","i","c","a","t","i","o","n",
       " ","f","a","i","l","e","d","."," ","P","l","e","a","s",
       "e"," ","t","r","y"," ","a","g","a","i","n","." >>

(* ---------------------------- responses -------------------------------- *)
\* axum Redirect::to: 303 See Other with a Location header
Redirect(to) == [status |-> 303, location |-> to]

AuthErr(kind, text) == [kind |-> kind, text |-> text]

\* mutant: a database failure is told apart from a provider failure
ErrorMsgByText(e) ==
    CASE e.kind = "StateMismatch" -> MsgStateMismatch
      [] e.kind = "TokenExchange" -> MsgTokenExchange
      [] e.kind = "ProfileFetch" ->
            IF e.text = "database error" THEN MsgOther ELSE MsgProfileFetch
      [] e.kind = "InvalidProvider" -> MsgInvalidProvider
      [] e.kind = "MissingAuthCode" -> MsgMissingAuthCode
      [] OTHER -> MsgOther

\* the message AppError::into_response picks for an AuthError
ErrorMsg(e) ==
    CASE e.kind = "StateMismatch" -> MsgStateMismatch
      [] e.kind = "TokenExchange" -> MsgTokenExchange
      [] e.kind = "ProfileFetch" -> MsgProfileFetch
      [] e.kind = "InvalidProvider" -> MsgInvalidProvider
      [] e.kind = "MissingAuthCode" -> MsgMissingAuthCode
      [] OTHER -> MsgOther

\* mutant: the session errors are answered with 401 and no redirect
IntoResponseUnauthorized(e) ==
    IF e.kind \in {"NotAuthenticated", "SessionExpired", "InvalidSession"}
    THEN [status |-> 401, location |-> ""]
    ELSE Redirect("/login?error=" \o UrlEncode(ErrorMsg(e)))

\* mutant: the first match arm does not list InvalidSession
IntoResponseSessionMessage(e) ==
    IF e.kind \in {"NotAuthenticated", "SessionExpired"}
    THEN Redirect("/login")
    ELSE Redirect("/login?error=" \o UrlEncode(ErrorMsg(e)))

\* AppError::into_response for AppError::Auth(e)
IntoResponse(e) ==
    IF e.kind \in {"NotAuthenticated", "SessionExpired", "InvalidSession"}
    THEN Redirect("/login")
    ELSE Redirect("/login?error=" \o UrlEncode(ErrorMsg(e)))

\* a string from its characters, nothing encoded
RECURSIVE Concat(_)
Concat(cs) == IF cs = << >> THEN "" ELSE Head(cs) \o Concat(Tail(cs))

\* the early return of a callback handler when the query carries `error`
MicrosoftFailedUrl == "/login?error=" \o UrlEncode(MsgMicrosoftFailed)
GitHubFailedUrl == "/login?error=" \o UrlEncode(MsgGitHubFailed)
\* mutant: the message is put into the URL without urlencoding::encode
ProviderErrorRedirectRaw(p) ==
    Redirect("/login?error=" \o
             Concat(IF p = "microsoft" THEN MsgMicrosoftFailed ELSE MsgGitHubFailed))

ProviderErrorRedirect(p) ==
    Redirect(IF p = "microsoft" THEN MicrosoftFailedUrl ELSE GitHubFailedUrl)

(* ---------------------------- CSRF state ------------------------------- *)
\* mutant: the state parameter is taken as the expected token in every case
ExpectedCsrfFromState(stored, state_param) == state_param

\* the token a callback handler compares the state parameter with: the
\* stored one or, when the session holds none, the state parameter itself
ExpectedCsrf(stored, state_param) ==
    IF IsSome(stored) THEN Unwrap(stored) ELSE state_param

\* the check at the head of handle_*_callback
StateMatches(state, expected_csrf_token) == state = expected_csrf_token

(* ---------------------------- profiles --------------------------------- *)
\* Option::or
OrElse(a, b) == IF IsSome(a) THEN a ELSE b
\* Option::unwrap_or
UnwrapOr(a, d) == IF IsSome(a) THEN Unwrap(a) ELSE d

\* mutant: the user-principal-name is preferred to the display name
MicrosoftCreateUserByPrincipal(profile) ==
    [provider |-> "microsoft",
     provider_id |-> profile.id,
     username |-> UnwrapOr(OrElse(profile.user_principal_name,
                                  profile.display_name),
                           "Microsoft User"),
     email |-> profile.mail,
     avatar_url |-> None]

\* the CreateUser a Microsoft profile is mapped to
MicrosoftCreateUser(profile) ==
    [provider |-> "microsoft",
     provider_id |-> profile.id,
     username |-> UnwrapOr(OrElse(profile.display_name,
                                  profile.user_principal_name),
                           "Microsoft User"),
     email |-> profile.mail,
     avatar_url |-> None]

\* the CreateUser a GitHub profile is mapped to
GitHubCreateUser(profile) ==
    [provider |-> "github",
     provider_id |-> U64ToString(profile.id),
     username |-> UnwrapOr(profile.name, profile.login),
     email |-> profile.email,
     avatar_url |-> profile.avatar_url]

\* mutant: the primary entry is taken whether it is verified or not
PrimaryEmail(emails) ==
    LET hits == {i \in 1..Len(emails) : emails[i].primary}
    IN IF hits = {} THEN None
       ELSE Some(emails[CHOOSE i \in hits : \A j \in hits : i <= j].email)

\* emails.into_iter().find(|e| e.primary && e.verified).map(|e| e.email)
PrimaryVerifiedEmail(emails) ==
    LET hits == {i \in 1..Len(emails) :
                    emails[i].primary /\ emails[i].verified}
    IN IF hits = {} THEN None
       ELSE Some(emails[CHOOSE i \in hits : \A j \in hits : i <= j].email)

(* ---------------------------- users table ------------------------------ *)
\* the users table is the sequence of its rows in id order; ids are
\* assigned 1, 2, ... and no row is ever deleted

\* UNIQUE(provider, provider_id) of the users table
UniqueViolation(table, provider, provider_id) ==
    \E i \in 1..Len(table) :
        table[i].provider = provider /\ table[i].provider_id = provider_id

\* mutant: the two binds of the SELECT are swapped
FindByProviderIdSwapped(table, provider, provider_id) ==
    LET hits == {i \in 1..Len(table) :
                    table[i].provider = provider_id
                    /\ table[i].provider_id = provider}
    IN IF hits = {} THEN None ELSE Some(table[CHOOSE i \in hits : TRUE])

\* mutant: the SELECT filters on provider_id alone
FindByProviderIdAnyProvider(table, provider, provider_id) ==
    LET hits == {i \in 1..Len(table) : table[i].provider_id = provider_id}
    IN IF hits = {} THEN None ELSE Some(table[CHOOSE i \in hits : TRUE])

\* mutant: the user is returned without the email column
FindByProviderIdNoEmail(table, provider, provider_id) ==
    LET hits == {i \in 1..Len(table) :
                    table[i].provider = provider
                    /\ table[i].provider_id = provider_id}
    IN IF hits = {} THEN None
       ELSE Some([table[CHOOSE i \in hits : TRUE] EXCEPT !.email = None])

\* UserRepository::find_by_provider_id
FindByProviderId(table, provider, provider_id) ==
    LET hits == {i \in 1..Len(table) :
                    table[i].provider = provider
                    /\ table[i].provider_id = provider_id}
    IN IF hits = {} THEN None ELSE Some(table[CHOOSE i \in hits : TRUE])

\* the row UserRepository::create_user inserts at time t
NewRow(table, cu, t) ==
    [id |-> Len(table) + 1,
     provider |-> cu.provider,
     provider_id |-> cu.provider_id,
     username |-> cu.username,
     email |-> cu.email,
     avatar_url |-> cu.avatar_url,
     created_at |-> t,
     last_login |-> t]

\* mutant: the INSERT succeeds also when a row with the same (provider,
\* provider_id) exists
CreateUserRowNoConflict(table, cu, t) ==
    [ok |-> TRUE,
     table |-> Append(table, NewRow(table, cu, t)),
     user |-> Some(NewRow(table, cu, t))]

\* mutant: the statement is INSERT OR REPLACE, a conflicting row is
\* overwritten by the new one
CreateUserRowReplace(table, cu, t) ==
    IF UniqueViolation(table, cu.provider, cu.provider_id)
    THEN LET i == CHOOSE j \in 1..Len(table) :
                     table[j].provider = cu.provider
                     /\ table[j].provider_id = cu.provider_id
             row == [NewRow(table, cu, t) EXCEPT !.id = i]
         IN [ok |-> TRUE, table |-> [table EXCEPT ![i] = row], user |-> Some(row)]
    ELSE [ok |-> TRUE,
          table |-> Append(table, NewRow(table, cu, t)),
          user |-> Some(NewRow(table, cu, t))]

\* UserRepository::create_user: the INSERT fails on the unique index,
\* otherwise the inserted row is read back and returned
CreateUserRow(table, cu, t) ==
    IF UniqueViolation(table, cu.provider, cu.provider_id)
    THEN [ok |-> FALSE, table |-> table, user |-> None]
    ELSE [ok |-> TRUE,
          table |-> Append(table, NewRow(table, cu, t)),
          user |-> Some(NewRow(table, cu, t))]

\* mutant: the UPDATE matches no row
UpdateLastLoginRowNone(table, user_id, t) == table

\* mutant: the UPDATE binds the timestamp to created_at as well, as the
\* INSERT does
UpdateLastLoginRowBoth(table, user_id, t) ==
    [i \in 1..Len(table) |->
        IF table[i].id = user_id
        THEN [table[i] EXCEPT !.last_login = t, !.created_at = t]
        ELSE table[i]]

\* UserRepository::update_last_login
UpdateLastLoginRow(table, user_id, t) ==
    [i \in 1..Len(table) |->
        IF table[i].id = user_id
        THEN [table[i] EXCEPT !.last_login = t]
        ELSE table[i]]

(* ---------------------------- session store ---------------------------- *)
\* mutant: the snapshot takes the provider's name for the username
SessionDataOfProviderName(user) ==
    [user_id |-> user.id, username |-> user.provider,
     provider |-> user.provider]

\* mutant: the record names the row after the user's
SessionDataOfNextId(user) ==
    [user_id |-> user.id + 1, username |-> user.username,
     provider |-> user.provider]

\* SessionData built by set_user_session
SessionDataOf(user) ==
    [user_id |-> user.id, username |-> user.username,
     provider |-> user.provider]

EmptySession == [csrf |-> None, user |-> None]

(* ---------------------------- protected area --------------------------- *)
\* Html(body): 200 OK with the rendered page
Html(body) == [status |-> 200, body |-> body]

\* DashboardTemplate::new
DashboardTemplate(username, email, provider) ==
    [username |-> username, email |-> email, provider |-> provider]

\* mutant: like optional_auth_middleware, a missing record does not reject
FromRequestPartsOptional(sess, ok) ==
    IF ~ok THEN [ok |-> FALSE, err |-> AuthErr("InvalidSession", "")]
    ELSE IF sess.user = None
         THEN [ok |-> TRUE,
               session_data |-> [user_id |-> 0, username |-> "", provider |-> ""]]
    ELSE [ok |-> TRUE, session_data |-> Unwrap(sess.user)]

\* AuthenticatedUser::from_request_parts on a session whose user_session
\* key can be read (ok) or not
FromRequestParts(sess, ok) ==
    IF ~ok THEN [ok |-> FALSE, err |-> AuthErr("InvalidSession", "")]
    ELSE IF sess.user = None
         THEN [ok |-> FALSE, err |-> AuthErr("NotAuthenticated", "")]
    ELSE [ok |-> TRUE, session_data |-> Unwrap(sess.user)]

(* ---------------------------- state ------------------------------------ *)
VARIABLES
    users,      \* the users table
    session,    \* session store: per client session, the csrf_token and user_session keys
    reqs,       \* the callback and logout requests, in flight and finished
    now,        \* the clock
    nextToken,  \* the next value CsrfToken::new_random returns
    issued      \* history: the tokens login initiations stored, with session, provider and response

vars == << users, session, reqs, now, nextToken, issued >>

\* the callback, logout and dashboard requests of one behaviour
ReqIds == {1, 2, 3}

NoQuery == [code |-> None, state |-> None, error |-> None]

\* a request that has not arrived yet
NoReq ==
    [kind |-> "none", provider |-> "-", sid |-> "-", query |-> NoQuery,
     pc |-> "idle",
     stored |-> None,       \* what get_csrf_token returned
     exchange |-> None,     \* the token request sent to the provider
     trace |-> << >>,       \* the steps the request has executed, in order
     fetched |-> None,      \* the profile the provider answered with
     emails |-> None,       \* the list /user/emails answered with
     create |-> None,       \* the CreateUser built from the fetched profile
     user |-> None,         \* the User handle_*_callback returns
     err |-> None,          \* the AuthError the request ended with
     resp |-> None,         \* the response sent
     after |-> {}]          \* the requests that had finished when this one arrived

Init ==
    /\ users = << >>
    /\ session = [s \in Sessions |-> EmptySession]
    /\ reqs = [r \in ReqIds |-> NoReq]
    /\ now = 0
    /\ nextToken = 1
    /\ issued = {}

Done(r) == reqs[r].pc = "done"
DoneReqs == {r \in ReqIds : Done(r)}

\* requests arrive in the order of their ids
CanStart(r) ==
    /\ reqs[r].kind = "none"
    /\ \A q \in ReqIds : q < r => reqs[q].kind # "none"

\* mutant: the error reaches the client as 500 Internal Server Error
FailInternalError(req, e) ==
    [req EXCEPT !.pc = "done", !.err = Some(e),
                !.resp = Some([status |-> 500, location |-> ""])]

\* mutant: the error is answered but the request stays where it was, so
\* the failed step can run again
FailAndStay(req, e) ==
    [req EXCEPT !.err = Some(e), !.resp = Some(IntoResponse(e))]

\* the request ends with Err(e): the handler's `?` turns it into a response
Fail(req, e) ==
    [req EXCEPT !.pc = "done", !.err = Some(e), !.resp = Some(IntoResponse(e))]

\* the request ends with Ok(response)
Finish(req, response) ==
    [req EXCEPT !.pc = "done", !.resp = Some(response)]

Did(req, step) == [req EXCEPT !.trace = Append(@, step)]

InvalidSession == AuthErr("InvalidSession", "")

(* ---------------------------- login initiation ------------------------- *)
\* Config::from_env: the client ids and the base URL of the deployment
Config ==
    [microsoft_client_id |-> "ms-client-id",
     github_client_id |-> "gh-client-id",
     base_url |-> "http://localhost:3000"]

\* an authorization URL: the provider's endpoint and the query parameters
\* authorize_url(..).url() puts on it (redirect_uri is base_url followed by
\* the callback path)
AuthUrl(endpoint, client_id, callback, scopes, state, pkce) ==
    [endpoint |-> endpoint,
     response_type |-> "code",
     client_id |-> client_id,
     redirect_uri |-> << Config.base_url, callback >>,
     scope |-> scopes,
     state |-> state,
     code_challenge_method |-> pkce]

\* mutant: the email scope is not requested
InitiateMicrosoftAuthNoEmail(token) ==
    AuthUrl("https://login.microsoftonline.com/common/oauth2/v2.0/authorize",
            Config.microsoft_client_id, "/auth/callback/microsoft",
            << "openid", "profile" >>, token, Some("S256"))

\* AuthService::initiate_microsoft_auth: the URL for state value token
InitiateMicrosoftAuth(token) ==
    AuthUrl("https://login.microsoftonline.com/common/oauth2/v2.0/authorize",
            Config.microsoft_client_id, "/auth/callback/microsoft",
            << "openid", "profile", "email" >>, token, Some("S256"))

\* AuthService::initiate_github_auth: the URL for state value token
InitiateGithubAuth(token) ==
    AuthUrl("https://github.com/login/oauth/authorize",
            Config.github_client_id, "/auth/callback/github",
            << "user:email" >>, token, None)

\* mutant: the URL is built with a state value of its own, not the one
\* the handler stores
IssuedOtherState(s, p, token) ==
    [sid |-> s, provider |-> p, token |-> token,
     resp |-> Redirect(IF p = "microsoft" THEN InitiateMicrosoftAuth(token + 1)
                       ELSE InitiateGithubAuth(token + 1))]

\* what a login initiation that stored its token has done: the token, the
\* session and provider it was for, and the response it sent
Issued(s, p, token) ==
    [sid |-> s, provider |-> p, token |-> token,
     resp |-> Redirect(IF p = "microsoft" THEN InitiateMicrosoftAuth(token)
                       ELSE InitiateGithubAuth(token))]

\* mutant: the token is stored under one key shared by all sessions
InitiateShared(s, p, ok) ==
    /\ nextToken <= MaxTokens
    /\ nextToken' = nextToken + 1
    /\ IF ok
       THEN /\ session' = [x \in Sessions |->
                              [session[x] EXCEPT !.csrf = Some(nextToken)]]
            /\ issued' = issued \cup {Issued(s, p, nextToken)}
       ELSE UNCHANGED << session, issued >>
    /\ UNCHANGED << users, reqs, now >>

\* microsoft_auth_handler / github_auth_handler: mint a random state value
\* and store it under the session's csrf_token key
Initiate(s, p, ok) ==
    /\ nextToken <= MaxTokens
    /\ nextToken' = nextToken + 1
    /\ IF ok
       THEN /\ session' = [session EXCEPT ![s].csrf = Some(nextToken)]
            /\ issued' = issued \cup {Issued(s, p, nextToken)}
       ELSE UNCHANGED << session, issued >>
    /\ UNCHANGED << users, reqs, now >>

(* ---------------------------- callback --------------------------------- *)
\* mutant: the state parameter is looked at before the code
CallbackBeginStateFirst(r, s, p, q, ok) ==
    /\ CanStart(r)
    /\ LET req == [NoReq EXCEPT !.kind = "callback", !.provider = p,
                                !.sid = s, !.query = q, !.after = DoneReqs]
           stored == session[s].csrf
           read == Did([req EXCEPT !.stored = stored], "get_csrf_token")
       IN reqs' = [reqs EXCEPT ![r] =
            IF IsSome(q.error) THEN Finish(req, ProviderErrorRedirect(p))
            ELSE IF q.state = None THEN Fail(req, AuthErr("StateMismatch", ""))
            ELSE IF q.code = None THEN Fail(req, AuthErr("MissingAuthCode", ""))
            ELSE IF ~ok THEN Fail(Did(req, "get_csrf_token"), InvalidSession)
            ELSE IF ~StateMatches(Unwrap(q.state),
                                  ExpectedCsrf(stored, Unwrap(q.state)))
                 THEN Fail(Did(read, "verify_state"),
                           AuthErr("StateMismatch", ""))
            ELSE [Did(read, "verify_state") EXCEPT !.pc = "exchange"]]
    /\ UNCHANGED << users, session, now, nextToken, issued >>

\* microsoft_callback_handler / github_callback_handler from the start to
\* the state check at the head of handle_*_callback
CallbackBegin(r, s, p, q, ok) ==
    /\ CanStart(r)
    /\ LET req == [NoReq EXCEPT !.kind = "callback", !.provider = p,
                                !.sid = s, !.query = q, !.after = DoneReqs]
           stored == session[s].csrf
           read == Did([req EXCEPT !.stored = stored], "get_csrf_token")
       IN reqs' = [reqs EXCEPT ![r] =
            IF IsSome(q.error) THEN Finish(req, ProviderErrorRedirect(p))
            ELSE IF q.code = None THEN Fail(req, AuthErr("MissingAuthCode", ""))
            ELSE IF q.state = None THEN Fail(req, AuthErr("StateMismatch", ""))
            ELSE IF ~ok THEN Fail(Did(req, "get_csrf_token"), InvalidSession)
            ELSE IF ~StateMatches(Unwrap(q.state),
                                  ExpectedCsrf(stored, Unwrap(q.state)))
                 THEN Fail(Did(read, "verify_state"),
                           AuthErr("StateMismatch", ""))
            ELSE [Did(read, "verify_state") EXCEPT !.pc = "exchange"]]
    /\ UNCHANGED << users, session, now, nextToken, issued >>

\* the token request exchange_code(AuthorizationCode::new(code)) builds:
\* no set_pkce_verifier is called on it
ExchangeCode(code) ==
    [grant_type |-> "authorization_code", code |-> code, code_verifier |-> None]

\* exchange_code(...).request_async(...).await
TokenExchange(r, ok) ==
    /\ reqs[r].pc = "exchange"
    /\ LET req == [Did(reqs[r], "token_exchange") EXCEPT
                     !.exchange = Some(ExchangeCode(Unwrap(reqs[r].query.code)))]
       IN reqs' = [reqs EXCEPT ![r] =
            IF ok THEN [req EXCEPT !.pc = "profile"]
            ELSE Fail(req, AuthErr("TokenExchange", "provider error"))]
    /\ UNCHANGED << users, session, now, nextToken, issued >>

\* what a GET on a provider endpoint can end in, besides a parsed body
HttpFailures == {"transport", "status", "malformed"}
HttpOutcomes == {"none"} \cup HttpFailures

\* mutant: a failed profile call is reported as a failed token exchange
ProfileFetchErrorAsExchange(failure) ==
    AuthErr("TokenExchange",
            CASE failure = "transport" -> "error sending request"
              [] failure = "status" -> "HTTP 500"
              [] OTHER -> "error decoding response body")

ProfileFetchError(failure) ==
    AuthErr("ProfileFetch",
            CASE failure = "transport" -> "error sending request"
              [] failure = "status" -> "HTTP 500"
              [] OTHER -> "error decoding response body")

\* GET https://graph.microsoft.com/v1.0/me: the call fails (failure), or
\* answers 2xx with a body that parses to profile (failure = "none")
MicrosoftProfileFetch(r, failure, profile) ==
    /\ reqs[r].pc = "profile"
    /\ reqs[r].provider = "microsoft"
    /\ LET req == Did(reqs[r], "profile")
       IN reqs' = [reqs EXCEPT ![r] =
            IF failure # "none" THEN Fail(req, ProfileFetchError(failure))
            ELSE [req EXCEPT !.pc = "find",
                             !.fetched = Some(profile),
                             !.create = Some(MicrosoftCreateUser(profile))]]
    /\ UNCHANGED << users, session, now, nextToken, issued >>

\* GET https://api.github.com/user and, when the profile has no email,
\* GET https://api.github.com/user/emails (emailsFailure, emails)
GitHubProfileFetch(r, failure, profile, emailsFailure, emails) ==
    /\ reqs[r].pc = "profile"
    /\ reqs[r].provider = "github"
    /\ LET req == Did(reqs[r], "profile")
           got == [req EXCEPT !.fetched = Some(profile)]
           asked == Did(got, "emails")
       IN reqs' = [reqs EXCEPT ![r] =
            IF failure # "none" THEN Fail(req, ProfileFetchError(failure))
            ELSE IF IsSome(profile.email)
                 THEN [got EXCEPT !.pc = "find",
                                  !.create = Some(GitHubCreateUser(profile))]
            ELSE IF emailsFailure \in {"transport", "malformed"}
                 THEN Fail(asked, ProfileFetchError(emailsFailure))
            ELSE IF emailsFailure = "status"
                 THEN [asked EXCEPT !.pc = "find",
                                    !.create = Some(GitHubCreateUser(profile))]
            ELSE [asked EXCEPT !.pc = "find",
                    !.emails = Some(emails),
                    !.create = Some(GitHubCreateUser(
                        [profile EXCEPT !.email = PrimaryVerifiedEmail(emails)]))]]
    /\ UNCHANGED << users, session, now, nextToken, issued >>

StorageError == AuthErr("ProfileFetch", "database error")

\* user_repository.find_by_provider_id(provider, &profile.id).await
FindUser(r, ok) ==
    /\ reqs[r].pc = "find"
    /\ LET req == Did(reqs[r], "find_by_provider_id")
           cu == Unwrap(req.create)
           found == FindByProviderId(users, cu.provider, cu.provider_id)
       IN reqs' = [reqs EXCEPT ![r] =
            IF ~ok THEN Fail(req, StorageError)
            ELSE IF IsSome(found)
                 THEN [req EXCEPT !.pc = "update", !.user = found]
            ELSE [req EXCEPT !.pc = "create"]]
    /\ UNCHANGED << users, session, now, nextToken, issued >>

\* the times chrono::Utc::now() can return next
ClockReads == {t \in now..(now + 1) : t <= MaxTime}

\* Ok(Some(existing_user)): update_last_login(existing_user.id).await
UpdateLastLogin(r, ok, t) ==
    /\ reqs[r].pc = "update"
    /\ t \in ClockReads
    /\ now' = t
    /\ LET req == Did(reqs[r], "update_last_login")
       IN IF ok
          THEN /\ users' = UpdateLastLoginRow(users, Unwrap(req.user).id, t)
               /\ reqs' = [reqs EXCEPT ![r] = [req EXCEPT !.pc = "set_session"]]
          ELSE /\ users' = users
               /\ reqs' = [reqs EXCEPT ![r] = Fail(req, StorageError)]
    /\ UNCHANGED << session, nextToken, issued >>

\* Ok(None): create_user(create_user).await
CreateUser(r, ok, t) ==
    /\ reqs[r].pc = "create"
    /\ t \in ClockReads
    /\ now' = t
    /\ LET req == Did(reqs[r], "create_user")
           res == CreateUserRow(users, Unwrap(req.create), t)
       IN IF ok /\ res.ok
          THEN /\ users' = res.table
               /\ reqs' = [reqs EXCEPT ![r] =
                    [req EXCEPT !.pc = "set_session", !.user = res.user]]
          ELSE /\ users' = users
               /\ reqs' = [reqs EXCEPT ![r] = Fail(req, StorageError)]
    /\ UNCHANGED << session, nextToken, issued >>

\* session.set_user_session(&user).await
SetUserSession(r, ok) ==
    /\ reqs[r].pc = "set_session"
    /\ LET req == Did(reqs[r], "set_user_session")
       IN IF ok
          THEN /\ session' = [session EXCEPT ![req.sid].user =
                                Some(SessionDataOf(Unwrap(req.user)))]
               /\ reqs' = [reqs EXCEPT ![r] = [req EXCEPT !.pc = "clear_csrf"]]
          ELSE /\ session' = session
               /\ reqs' = [reqs EXCEPT ![r] = Fail(req, InvalidSession)]
    /\ UNCHANGED << users, now, nextToken, issued >>

\* session.clear_csrf_token().await and the redirect to the dashboard
ClearCsrfToken(r, ok) ==
    /\ reqs[r].pc = "clear_csrf"
    /\ LET req == Did(reqs[r], "clear_csrf_token")
       IN IF ok
          THEN /\ session' = [session EXCEPT ![req.sid].csrf = None]
               /\ reqs' = [reqs EXCEPT ![r] = Finish(req, Redirect("/dashboard"))]
          ELSE /\ session' = session
               /\ reqs' = [reqs EXCEPT ![r] = Fail(req, InvalidSession)]
    /\ UNCHANGED << users, now, nextToken, issued >>

(* ---------------------------- logout ----------------------------------- *)
\* mutant: the logout removes the user record of every session
LogoutEveryone(r, s, ok) ==
    /\ CanStart(r)
    /\ session' = [x \in Sessions |-> [session[x] EXCEPT !.user = None]]
    /\ reqs' = [reqs EXCEPT ![r] =
          [Did([NoReq EXCEPT !.kind = "logout", !.sid = s, !.after = DoneReqs],
               "clear_user_session") EXCEPT !.pc = "logout_csrf"]]
    /\ UNCHANGED << users, now, nextToken, issued >>

\* mutant: logout_handler without its session.clear_user_session() line
LogoutKeepUser(r, s, ok) ==
    /\ CanStart(r)
    /\ reqs' = [reqs EXCEPT ![r] =
          [Did([NoReq EXCEPT !.kind = "logout", !.sid = s, !.after = DoneReqs],
               "clear_user_session") EXCEPT !.pc = "logout_csrf"]]
    /\ UNCHANGED << users, session, now, nextToken, issued >>

\* logout_handler: session.clear_user_session().await
LogoutBegin(r, s, ok) ==
    /\ CanStart(r)
    /\ LET req == Did([NoReq EXCEPT !.kind = "logout", !.sid = s,
                                    !.after = DoneReqs],
                      "clear_user_session")
       IN IF ok
          THEN /\ session' = [session EXCEPT ![s].user = None]
               /\ reqs' = [reqs EXCEPT ![r] = [req EXCEPT !.pc = "logout_csrf"]]
          ELSE /\ session' = session
               /\ reqs' = [reqs EXCEPT ![r] = Fail(req, InvalidSession)]
    /\ UNCHANGED << users, now, nextToken, issued >>

\* mutant: logout_handler without its session.clear_csrf_token() line
LogoutKeepCsrf(r, ok) ==
    /\ reqs[r].pc = "logout_csrf"
    /\ reqs' = [reqs EXCEPT ![r] = Finish(reqs[r], Redirect("/login"))]
    /\ UNCHANGED << users, session, now, nextToken, issued >>

\* logout_handler: session.clear_csrf_token().await and the redirect
LogoutClearCsrf(r, ok) ==
    /\ reqs[r].pc = "logout_csrf"
    /\ LET req == Did(reqs[r], "clear_csrf_token")
       IN IF ok
          THEN /\ session' = [session EXCEPT ![req.sid].csrf = None]
               /\ reqs' = [reqs EXCEPT ![r] = Finish(req, Redirect("/login"))]
          ELSE /\ session' = session
               /\ reqs' = [reqs EXCEPT ![r] = Fail(req, InvalidSession)]
    /\ UNCHANGED << users, now, nextToken, issued >>

(* ---------------------------- dashboard -------------------------------- *)
\* GET /dashboard: the AuthenticatedUser extractor, then dashboard_handler
Dashboard(r, s, ok) ==
    /\ CanStart(r)
    /\ LET req == Did([NoReq EXCEPT !.kind = "dashboard", !.sid = s,
                                    !.after = DoneReqs],
                      "get_user_session")
           extracted == FromRequestParts(session[s], ok)
       IN reqs' = [reqs EXCEPT ![r] =
            IF ~extracted.ok THEN Fail(req, extracted.err)
            ELSE Finish(Did(req, "dashboard_handler"),
                        Html(DashboardTemplate(extracted.session_data.username,
                                               None,
                                               extracted.session_data.provider)))]
    /\ UNCHANGED << users, session, now, nextToken, issued >>

(* ---------------------------- specification ---------------------------- *)
\* one step of the system, with the inputs of the environment drawn from
\* the given sets: the requests RC that can be callbacks and RO that can be
\* logouts or dashboard visits, client sessions SS, callback queries QQ, the profiles
\* MS and GH and the email lists EL the providers answer with, the ways HF
\* a provider call can end, and OK, whether a storage or session-store
\* operation can fail (BOOLEAN) or not ({TRUE})
Step(RC, RO, SS, QQ, MS, GH, EL, HF, OK) ==
    \/ \E s \in SS, p \in Providers, ok \in OK : Initiate(s, p, ok)
    \/ \E r \in RC, s \in SS, p \in Providers, q \in QQ, ok \in OK :
          CallbackBegin(r, s, p, q, ok)
    \/ \E r \in RC, ok \in BOOLEAN : TokenExchange(r, ok)
    \/ \E r \in RC, f \in HF, a \in MS : MicrosoftProfileFetch(r, f, a)
    \/ \E r \in RC, f \in HF, a \in GH, ef \in HF, e \in EL :
          GitHubProfileFetch(r, f, a, ef, e)
    \/ \E r \in RC, ok \in OK : FindUser(r, ok)
    \/ \E r \in RC, ok \in OK, t \in 0..MaxTime : UpdateLastLogin(r, ok, t)
    \/ \E r \in RC, ok \in OK, t \in 0..MaxTime : CreateUser(r, ok, t)
    \/ \E r \in RC, ok \in OK : SetUserSession(r, ok)
    \/ \E r \in RC, ok \in OK : ClearCsrfToken(r, ok)
    \/ \E r \in RO, s \in SS, ok \in OK : LogoutBegin(r, s, ok)
    \/ \E r \in RO, ok \in OK : LogoutClearCsrf(r, ok)
    \/ \E r \in RO, s \in SS, ok \in OK : Dashboard(r, s, ok)

\* queries with `error`: alone, and together with a code and a state
ErrorQueries ==
    {q \in Queries : IsSome(q.error) /\ (q.code = None <=> q.state = None)
                     /\ q.state \in {None, Some(1)}}
\* queries without `error`: code and state, and one of them missing
PlainQueries ==
    {q \in Queries : q.error = None /\ (q.code = None => q.state = Some(1))}

\* one profile per external identity, with every field present
FullMs ==
    {p \in MicrosoftProfiles :
        IsSome(p.display_name) /\ IsSome(p.user_principal_name) /\ IsSome(p.mail)}
FullGh ==
    {p \in GitHubProfiles :
        IsSome(p.name) /\ IsSome(p.email) /\ IsSome(p.avatar_url)}

\* one client, every kind of callback query, providers that answer or fail
Next ==
    Step({1, 2}, {1, 2}, {"s1"}, ErrorQueries \cup PlainQueries, FullMs, FullGh,
         {<< >>}, {"none", "status"}, {TRUE})

Spec == Init /\ [][Next]_vars

\* queries a provider redirects back with after a login: a code and a state
AcceptedQueries ==
    {q \in Queries : q.error = None /\ IsSome(q.code) /\ q.state = Some(1)}

\* the profiles that differ in the name the provider reports
NamedMs ==
    {p \in MicrosoftProfiles : IsSome(p.user_principal_name) /\ IsSome(p.mail)}
NamedGh ==
    {p \in GitHubProfiles : IsSome(p.email) /\ IsSome(p.avatar_url)}

\* one client whose providers report the same identity under changing names
NextAccounts ==
    Step({1, 2}, {1, 2}, {"s1"}, AcceptedQueries, NamedMs, NamedGh, {<< >>},
         {"none"}, {TRUE})

SpecAccounts == Init /\ [][NextAccounts]_vars

\* one client that logs in, logs out and visits the dashboard: up to two
\* callbacks, then logouts and dashboard visits, three requests in all
NextLifecycle ==
    Step({1, 2}, {2, 3}, {"s1"}, AcceptedQueries, FullMs, FullGh, {<< >>},
         {"none"}, {TRUE})

SpecLifecycle == Init /\ [][NextLifecycle]_vars

\* one client, with a database and a session store whose operations can fail
NextFaults ==
    Step({1, 2}, {1, 2}, {"s1"}, AcceptedQueries, FullMs, FullGh, {<< >>},
         {"none"}, BOOLEAN)

SpecFaults == Init /\ [][NextFaults]_vars

\* two clients, each with its own session
NextClients ==
    Step({1, 2}, {1, 2}, Sessions, AcceptedQueries, FullMs, FullGh, {<< >>},
         {"none"}, {TRUE})

SpecClients == Init /\ [][NextClients]_vars

\* a provider error, a missing code, a missing state, a forged state and
\* the state of the first login
FlowQueries ==
    {q \in ErrorQueries \cup PlainQueries :
        /\ q.state \in {None, Some(Forged), Some(1)}
        /\ IsSome(q.error) => q.code = None}

\* the GitHub profiles with a name and an avatar and without an email
HiddenEmailGh ==
    {p \in GitHubProfiles :
        IsSome(p.name) /\ IsSome(p.avatar_url) /\ p.email = None}

\* one client, every kind of callback query, provider calls that fail in
\* every way, and a database and a session store that can fail
NextErrors ==
    Step({1, 2}, {1, 2}, {"s1"}, FlowQueries, FullMs, HiddenEmailGh, {<< >>},
         HttpOutcomes, BOOLEAN)

SpecErrors == Init /\ [][NextErrors]_vars

\* the Microsoft profiles with a mail address: every combination of
\* display name and user principal name
MailMs == {p \in MicrosoftProfiles : IsSome(p.mail)}
\* the GitHub profiles with an avatar: with and without name, with and
\* without public email
AvatarGh == {p \in GitHubProfiles : IsSome(p.avatar_url)}

\* one client whose providers report these profiles and every email list

NextProfiles ==
    Step({1, 2}, {1, 2}, {"s1"}, AcceptedQueries, MailMs, AvatarGh,
         EmailLists, {"none", "status"}, {TRUE})

SpecProfiles == Init /\ [][NextProfiles]_vars

(* ---------------------------- progress --------------------------------- *)
\* a step of request r that waits for the database or the session store
LocalStep(r) ==
    \/ FindUser(r, TRUE)
    \/ \E t \in 0..MaxTime : UpdateLastLogin(r, TRUE, t)
    \/ \E t \in 0..MaxTime : CreateUser(r, TRUE, t)
    \/ SetUserSession(r, TRUE)
    \/ ClearCsrfToken(r, TRUE)
    \/ LogoutClearCsrf(r, TRUE)

\* the database and the session store answer every request; the HTTP
\* clients are built without a timeout, so nothing makes the await of a
\* provider call (token exchange, profile fetch) return: those steps get
\* no fairness
NextLive ==
    Step({1, 2}, {1, 2}, {"s1"}, AcceptedQueries, NamedMs, NamedGh, {<< >>},
         {"none", "status"}, {TRUE})

SpecLive ==
    Init /\ [][NextLive]_vars /\ \A r \in ReqIds : WF_vars(LocalStep(r))

\* callbacks without `error` in which code, state or both may be missing
IncompleteQueries ==
    {q \in Queries : q.error = None /\ q.state \in {None, Some(1)}}
NextQueries ==
    Step({1, 2}, {1, 2}, {"s1"}, IncompleteQueries, FullMs, FullGh, {<< >>},
         {"none"}, {TRUE})
SpecQueries == Init /\ [][NextQueries]_vars

(* ---------------------------- vocabulary of the claims ----------------- *)
Callbacks == {r \in ReqIds : reqs[r].kind = "callback"}

InTrace(req, step) == \E i \in 1..Len(req.trace) : req.trace[i] = step

\* the calls that go to the provider over the network
ProviderCallSteps == {"token_exchange", "profile", "emails"}
CalledProvider(req) == \E st \in ProviderCallSteps : InTrace(req, st)

ErrKind(req) == IF IsSome(req.err) THEN Unwrap(req.err).kind ELSE "-"
RejectedWith(req, kind) == req.pc = "done" /\ ErrKind(req) = kind

\* the request carried a code and a state and no error, and read the session
ReadCsrf(req) == req.kind = "callback" /\ InTrace(req, "get_csrf_token")
                 /\ ErrKind(req) # "InvalidSession"

\* the state check let the request through
PassedVerification(req) ==
    /\ req.kind = "callback"
    /\ InTrace(req, "verify_state")
    /\ ~RejectedWith(req, "StateMismatch")

\* the request wrote the user record of its session
WroteSession(req) ==
    /\ req.kind = "callback"
    /\ InTrace(req, "set_user_session")
    /\ req.pc = "clear_csrf" \/ InTrace(req, "clear_csrf_token")

\* handle_*_callback returned Ok(user)
Returned(req) ==
    /\ req.kind = "callback"
    /\ IsSome(req.user)
    /\ req.pc \in {"set_session", "clear_csrf"} \/ InTrace(req, "set_user_session")

\* the external identity the provider reported to the request
Identity(req) ==
    << Unwrap(req.create).provider, Unwrap(req.create).provider_id >>
RowsOf(identity) ==
    {i \in 1..Len(users) :
        << users[i].provider, users[i].provider_id >> = identity}

IssuedTo(s) == {i.token : i \in {j \in issued : j.sid = s}}

(* ---------------------------- C1 --------------------------------------- *)
\* C1: a session holds a user record only if a callback of that session
\* presented a state value that a login initiation had issued to that
\* session; a callback whose state was never issued establishes no session.
C1_SessionOnlyForIssuedState ==
    /\ \A s \in Sessions :
          IsSome(session[s].user) =>
             \E r \in Callbacks :
                 /\ reqs[r].sid = s
                 /\ IsSome(reqs[r].query.state)
                 /\ Unwrap(reqs[r].query.state) \in IssuedTo(s)
    /\ \A r \in Callbacks :
          WroteSession(reqs[r]) =>
             Unwrap(reqs[r].query.state) \in {i.token : i \in issued}

(* ---------------------------- C2 --------------------------------------- *)
\* C2: the users table never holds two rows with the same (provider,
\* provider_id), and no two callbacks return different user ids for the
\* same external identity, under every interleaving.
C2_OneAccountPerIdentity ==
    /\ \A i, j \in 1..Len(users) :
          (users[i].provider = users[j].provider
           /\ users[i].provider_id = users[j].provider_id) => i = j
    /\ \A r1, r2 \in Callbacks :
          (IsSome(reqs[r1].user) /\ IsSome(reqs[r2].user)
           /\ Identity(reqs[r1]) = Identity(reqs[r2]))
             => Unwrap(reqs[r1].user).id = Unwrap(reqs[r2].user).id

\* two callbacks for one new identity both found no row and both ran the
\* INSERT; one row exists
C2_Witness ==
    \E r1, r2 \in Callbacks :
        /\ r1 # r2
        /\ InTrace(reqs[r1], "create_user") /\ InTrace(reqs[r2], "create_user")
        /\ Identity(reqs[r1]) = Identity(reqs[r2])
        /\ Cardinality(RowsOf(Identity(reqs[r1]))) = 1

(* ---------------------------- C3 --------------------------------------- *)
\* C3: a callback whose INSERT hits the uniqueness violation re-reads the
\* row and returns the existing user: every callback that ran the INSERT
\* ends without an error and with the user of its identity.
C3_InsertRaceRecovered ==
    \A r \in Callbacks :
        (reqs[r].pc = "done" /\ InTrace(reqs[r], "create_user")) =>
            /\ reqs[r].err = None
            /\ IsSome(reqs[r].user)
            /\ \E i \in RowsOf(Identity(reqs[r])) :
                  users[i].id = Unwrap(reqs[r].user).id

(* ---------------------------- C4 --------------------------------------- *)
\* C4: a callback whose state differs from the CSRF token stored in the
\* session ends with StateMismatch without any provider call, and in every
\* callback the state check comes before the first provider call.
C4_MismatchRejectedBeforeProviderCall ==
    \A r \in Callbacks :
        /\ (ReadCsrf(reqs[r]) /\ IsSome(reqs[r].stored)
            /\ reqs[r].query.state # reqs[r].stored)
              => (RejectedWith(reqs[r], "StateMismatch")
                  /\ ~CalledProvider(reqs[r]))
        /\ \A i \in 1..Len(reqs[r].trace) :
              reqs[r].trace[i] \in ProviderCallSteps
                => \E j \in 1..(i - 1) : reqs[r].trace[j] = "verify_state"

\* a callback presented a state other than the stored token and was rejected
C4_Witness ==
    \E r \in Callbacks :
        /\ IsSome(reqs[r].stored)
        /\ reqs[r].query.state # reqs[r].stored
        /\ RejectedWith(reqs[r], "StateMismatch")
        /\ InTrace(reqs[r], "verify_state")

(* ---------------------------- C5 --------------------------------------- *)
\* C5: a callback with code and state that finds no stored CSRF token in
\* its session is rejected with StateMismatch and calls no provider.
C5_MissingTokenRejected ==
    \A r \in Callbacks :
        (ReadCsrf(reqs[r]) /\ reqs[r].stored = None) =>
            (RejectedWith(reqs[r], "StateMismatch") /\ ~CalledProvider(reqs[r]))

(* ---------------------------- C6 --------------------------------------- *)
\* C6: once a callback of a session has been handled with a state value
\* that matched the session's stored token, every later callback of that
\* session with the same state value is rejected with StateMismatch and
\* never reaches the token exchange.
C6_NoReplay ==
    \A r1, r2 \in Callbacks :
        (r1 \in reqs[r2].after
         /\ InTrace(reqs[r1], "verify_state")
         /\ IsSome(reqs[r1].stored)
         /\ reqs[r1].stored = reqs[r1].query.state
         /\ reqs[r1].sid = reqs[r2].sid
         /\ reqs[r1].query.state = reqs[r2].query.state
         /\ ReadCsrf(reqs[r2]))
          => (RejectedWith(reqs[r2], "StateMismatch")
              /\ ~InTrace(reqs[r2], "token_exchange"))

(* ---------------------------- C7 --------------------------------------- *)
\* C7: when a callback that reached the state check ends, with or without
\* an error, its session holds no stored CSRF token.
C7_TokenRemovedOnUse ==
    [][\A r \in ReqIds :
          (reqs[r].pc # "done" /\ reqs'[r].pc = "done"
           /\ reqs'[r].kind = "callback"
           /\ InTrace(reqs'[r], "verify_state"))
            => session'[reqs'[r].sid].csrf = None]_vars

(* ---------------------------- C8 --------------------------------------- *)
\* C8: one issued CSRF token lets at most one callback through the state
\* check, also when two callbacks with that state run concurrently.
C8_TokenAuthorizesOneCallback ==
    \A r1, r2 \in Callbacks :
        (PassedVerification(reqs[r1]) /\ PassedVerification(reqs[r2])
         /\ reqs[r1].sid = reqs[r2].sid
         /\ reqs[r1].query.state = reqs[r2].query.state
         /\ Unwrap(reqs[r1].query.state) \in IssuedTo(reqs[r1].sid))
          => r1 = r2

(* ---------------------------- C9 --------------------------------------- *)
\* C9: a callback whose query carries `error` is answered with a redirect
\* to the login page with the provider's fixed, URL-encoded message and
\* runs no step of the flow, whatever code and state it carries.
C9_ProviderErrorShortCircuits ==
    \A r \in Callbacks :
        IsSome(reqs[r].query.error) =>
            /\ reqs[r].pc = "done"
            /\ reqs[r].trace = << >>
            /\ reqs[r].err = None
            /\ reqs[r].user = None
            /\ reqs[r].resp = Some(Redirect(
                  IF reqs[r].provider = "microsoft"
                  THEN "/login?error=Microsoft%20authentication%20failed.%20Please%20try%20again."
                  ELSE "/login?error=GitHub%20authentication%20failed.%20Please%20try%20again."))

\* a callback carried `error` together with a code and a state
C9_Witness ==
    \E r \in Callbacks :
        /\ IsSome(reqs[r].query.error)
        /\ IsSome(reqs[r].query.code)
        /\ IsSome(reqs[r].query.state)
        /\ reqs[r].pc = "done"

(* ---------------------------- C10 -------------------------------------- *)
\* C10: account resolution is idempotent: a callback for an identity that
\* an earlier successful callback resolved runs no INSERT and gets the
\* same user id, and the identity keeps exactly one row.
C10_ResolveIdempotent ==
    \A r1, r2 \in Callbacks :
        (r1 \in reqs[r2].after
         /\ Returned(reqs[r1])
         /\ InTrace(reqs[r2], "find_by_provider_id")
         /\ Identity(reqs[r1]) = Identity(reqs[r2]))
          => /\ ~InTrace(reqs[r2], "create_user")
             /\ IsSome(reqs[r2].user)
             /\ Unwrap(reqs[r2].user).id = Unwrap(reqs[r1].user).id
             /\ Cardinality(RowsOf(Identity(reqs[r2]))) = 1

\* two successive successful callbacks for the same identity
C10_Witness ==
    \E r1, r2 \in Callbacks :
        /\ r1 \in reqs[r2].after
        /\ reqs[r1].resp = Some(Redirect("/dashboard"))
        /\ reqs[r2].resp = Some(Redirect("/dashboard"))
        /\ Identity(reqs[r1]) = Identity(reqs[r2])

(* ---------------------------- C11 -------------------------------------- *)
\* the request r takes a step
Acts(r) == reqs'[r] # reqs[r]

\* the account the lookup of a callback found
FoundId(req) == Unwrap(req.user).id

\* C11: a callback that found an existing account changes, on its way to
\* the session, nothing in the users table but the last_login of that
\* account's row; every other field of the row and every other row stay.
C11_UpdateChangesOnlyLastLogin ==
    [][\A r \in ReqIds :
          (Acts(r) /\ reqs[r].kind = "callback" /\ InTrace(reqs[r], "find_by_provider_id")
             /\ IsSome(reqs[r].user) /\ ~InTrace(reqs[r], "create_user")) =>
             IF reqs[r].pc = "update"
             THEN /\ Len(users') = Len(users)
                  /\ \A i \in 1..Len(users) :
                        IF users[i].id = FoundId(reqs[r])
                        THEN users'[i] =
                               [users[i] EXCEPT !.last_login = users'[i].last_login]
                        ELSE users'[i] = users[i]
             ELSE users' = users]_vars

\* a callback logged into an existing account that is stored under another
\* name than the provider reported this time
C11_Witness ==
    \E r \in Callbacks :
        /\ InTrace(reqs[r], "update_last_login")
        /\ reqs[r].resp = Some(Redirect("/dashboard"))
        /\ Unwrap(reqs[r].create).username # users[FoundId(reqs[r])].username
        /\ users[FoundId(reqs[r])].last_login > users[FoundId(reqs[r])].created_at

(* ---------------------------- C12 -------------------------------------- *)
\* the last step the request executed
LastStep(req) == req.trace[Len(req.trace)]

\* C12: accounts are kept per provider.  A callback of one provider is
\* handed an account of that provider with the reported id, two callbacks
\* of different providers never get the same account id, a callback never
\* changes a row of the other provider, and an insert is refused only when
\* a row of the same provider with the same id is there.
C12_ProvidersAreSeparateAccounts ==
    [][/\ \A r \in ReqIds :
             (reqs'[r].kind = "callback" /\ Returned(reqs'[r])) =>
                /\ Unwrap(reqs'[r].user).provider = reqs'[r].provider
                /\ << Unwrap(reqs'[r].user).provider,
                      Unwrap(reqs'[r].user).provider_id >> = Identity(reqs'[r])
       /\ \A r1, r2 \in ReqIds :
             (/\ reqs'[r1].kind = "callback" /\ Returned(reqs'[r1])
              /\ reqs'[r2].kind = "callback" /\ Returned(reqs'[r2])
              /\ reqs'[r1].provider # reqs'[r2].provider) =>
                Unwrap(reqs'[r1].user).id # Unwrap(reqs'[r2].user).id
       /\ \A r \in ReqIds :
             (Acts(r) /\ reqs'[r].kind = "callback") =>
                /\ Len(users') >= Len(users)
                /\ \A i \in 1..Len(users) :
                      users[i].provider # reqs'[r].provider => users'[i] = users[i]
       /\ \A r \in ReqIds :
             (/\ Acts(r) /\ reqs[r].pc = "create"
              /\ RejectedWith(reqs'[r], "ProfileFetch")) =>
                \E i \in 1..Len(users) :
                    << users[i].provider, users[i].provider_id >> = Identity(reqs[r])
      ]_vars

\* the same external id was used to log in through both providers and each
\* callback created its own account
C12_Witness ==
    \E r1, r2 \in Callbacks :
        /\ reqs[r1].provider = "microsoft" /\ reqs[r2].provider = "github"
        /\ reqs[r1].resp = Some(Redirect("/dashboard"))
        /\ reqs[r2].resp = Some(Redirect("/dashboard"))
        /\ InTrace(reqs[r1], "create_user") /\ InTrace(reqs[r2], "create_user")
        /\ Identity(reqs[r1])[2] = Identity(reqs[r2])[2]
        /\ Len(users) = 2
        /\ Unwrap(reqs[r1].user).id # Unwrap(reqs[r2].user).id

(* ---------------------------- C13 -------------------------------------- *)
\* C13: no step removes a row of the users table or changes the id,
\* provider, provider_id or created_at of a row that is there.
C13_CreatedAtImmutable ==
    [][/\ Len(users') >= Len(users)
       /\ \A i \in 1..Len(users) :
             /\ users'[i].id = users[i].id
             /\ users'[i].provider = users[i].provider
             /\ users'[i].provider_id = users[i].provider_id
             /\ users'[i].created_at = users[i].created_at]_vars

\* an account was created and, at a later time, logged into again
C13_Witness ==
    \E i \in 1..Len(users) :
        /\ users[i].created_at < users[i].last_login
        /\ \E r1, r2 \in Callbacks :
              /\ InTrace(reqs[r1], "create_user") /\ IsSome(reqs[r1].user)
              /\ Unwrap(reqs[r1].user).id = i
              /\ InTrace(reqs[r2], "update_last_login") /\ reqs[r2].pc = "done"
              /\ FoundId(reqs[r2]) = i

(* ---------------------------- C14 -------------------------------------- *)
\* the row of the account a callback resolved
RowOf(req) == users[Unwrap(req.user).id]

\* C14: when a callback resolves its account at clock reading t, it leaves
\* t in last_login of that account's row, for an account it creates (where
\* created_at is t too) and for an account that existed; the callback's
\* later steps, up to the redirect to the dashboard, do not write the table.
C14_LastLoginIsAuthenticationTime ==
    [][\A r \in ReqIds :
          /\ (reqs[r].pc \in {"update", "create"} /\ reqs'[r].pc = "set_session") =>
                LET row == users'[Unwrap(reqs'[r].user).id]
                IN /\ row.last_login = now'
                   /\ << row.provider, row.provider_id >> = Identity(reqs[r])
                   /\ reqs[r].pc = "create" => row.created_at = now'
          /\ (Acts(r) /\ reqs[r].pc \in {"set_session", "clear_csrf"}) =>
                users' = users]_vars

\* a callback that logged into an existing account has ended successfully
\* and the row carries the time of that login, later than its creation
C14_Witness ==
    \E r \in Callbacks :
        /\ InTrace(reqs[r], "update_last_login")
        /\ reqs[r].resp = Some(Redirect("/dashboard"))
        /\ RowOf(reqs[r]).last_login = now
        /\ RowOf(reqs[r]).created_at < now
        /\ Unwrap(reqs[r].user).last_login < now

(* ---------------------------- C15 -------------------------------------- *)
\* the place of a step in the order of a callback attempt: state verified
\* (1), token exchanged (2), profile fetched (3, 4), user resolved (5, 6),
\* session established (7, 8)
StepRank(step) ==
    CASE step = "get_csrf_token" -> 0
      [] step = "verify_state" -> 1
      [] step = "token_exchange" -> 2
      [] step = "profile" -> 3
      [] step = "emails" -> 4
      [] step = "find_by_provider_id" -> 5
      [] step \in {"update_last_login", "create_user"} -> 6
      [] step = "set_user_session" -> 7
      [] step = "clear_csrf_token" -> 8
      [] OTHER -> 9

InOrder(trace) ==
    \A i, j \in 1..Len(trace) : i < j => StepRank(trace[i]) < StepRank(trace[j])

IsPrefix(a, b) == Len(a) <= Len(b) /\ \A i \in 1..Len(a) : a[i] = b[i]

\* C15: the steps of a callback attempt run in the order state verified,
\* token exchanged, profile fetched, user resolved, session established,
\* none of them twice; a step only adds to what the attempt has done; an
\* attempt that failed or that sent its response is over: it takes no
\* further step.
C15_StepsInOrderNoRetry ==
    [][\A r \in ReqIds :
          reqs'[r].kind = "callback" =>
             /\ InOrder(reqs'[r].trace)
             /\ reqs[r].kind = "callback" => IsPrefix(reqs[r].trace, reqs'[r].trace)
             /\ (IsSome(reqs'[r].err) \/ IsSome(reqs'[r].resp)) => Done(r)'
             /\ Done(r) => reqs'[r] = reqs[r]]_vars

\* one attempt went through every step to the dashboard and another one,
\* which arrived after it, failed at the profile fetch and stopped there
C15_Witness ==
    \E r1, r2 \in Callbacks :
        /\ r1 \in reqs[r2].after
        /\ reqs[r1].resp = Some(Redirect("/dashboard"))
        /\ Len(reqs[r1].trace) = 8
        /\ RejectedWith(reqs[r2], "ProfileFetch")
        /\ LastStep(reqs[r2]) = "profile"
        /\ Len(reqs[r2].trace) = 4

(* ---------------------------- C16 -------------------------------------- *)
\* the request r arrives in this step as a GET /dashboard of session s
DashboardArrives(r, s) ==
    reqs[r].kind = "none" /\ reqs'[r].kind = "dashboard" /\ reqs'[r].sid = s

\* C16: a dashboard request runs dashboard_handler and is served the page
\* only when its session holds a user record at that time, and the page is
\* rendered from that record; when the record is absent the answer is the
\* redirect to /login and dashboard_handler does not run.
C16_DashboardRequiresSession ==
    [][\A r \in ReqIds, s \in Sessions :
          DashboardArrives(r, s) =>
             IF session[s].user = None
             THEN /\ reqs'[r].resp = Some(Redirect("/login"))
                  /\ ~InTrace(reqs'[r], "dashboard_handler")
                  /\ RejectedWith(reqs'[r], "NotAuthenticated")
             ELSE /\ InTrace(reqs'[r], "dashboard_handler")
                  /\ reqs'[r].resp =
                       Some(Html(DashboardTemplate(
                               Unwrap(session[s].user).username, None,
                               Unwrap(session[s].user).provider)))]_vars

Dashboards == {r \in ReqIds : reqs[r].kind = "dashboard"}

\* the dashboard was asked for twice in one session: once without a user
\* record, which was redirected, and once with one, which was served
C16_Witness ==
    \E r1, r2 \in Dashboards :
        /\ reqs[r1].sid = reqs[r2].sid
        /\ reqs[r1].resp = Some(Redirect("/login"))
        /\ ~InTrace(reqs[r1], "dashboard_handler")
        /\ InTrace(reqs[r2], "dashboard_handler")
        /\ Unwrap(reqs[r2].resp).status = 200

(* ---------------------------- C17 -------------------------------------- *)
Logouts == {r \in ReqIds : reqs[r].kind = "logout"}

\* the callback c writes the user record of session s in this step
EstablishesSession(c, s) ==
    /\ reqs[c].pc = "set_session" /\ reqs'[c].pc = "clear_csrf"
    /\ reqs[c].sid = s

NeverAuthenticatedResponse ==
    IntoResponse(FromRequestParts(EmptySession, TRUE).err)

\* the callbacks that wrote the user record of session s
Authenticators(s) ==
    {c \in Callbacks : reqs[c].sid = s /\ InTrace(reqs[c], "set_user_session")}

\* C18: a dashboard request that arrives after a logout of its session
\* has completed, with no callback having written the session's user
\* record since that logout arrived, gets the response of a session that
\* never authenticated, the redirect to /login, and so does every
\* dashboard request of a session no callback ever wrote.
C18_AfterLogoutLikeNeverAuthenticated ==
    /\ \A d \in Dashboards, l \in Logouts :
          (/\ l \in reqs[d].after
           /\ reqs[l].sid = reqs[d].sid
           /\ reqs[l].err = None
           /\ Authenticators(reqs[d].sid) \subseteq reqs[l].after) =>
              /\ reqs[d].resp = Some(NeverAuthenticatedResponse)
              /\ ~InTrace(reqs[d], "dashboard_handler")
    /\ \A d \in Dashboards :
          Authenticators(reqs[d].sid) = {} =>
              reqs[d].resp = Some(NeverAuthenticatedResponse)
    /\ NeverAuthenticatedResponse = Redirect("/login")

\* login, then logout, then the dashboard: the session had a user record,
\* the logout removed it and the dashboard request was redirected
C18_Witness ==
    \E c \in Callbacks, l \in Logouts, d \in Dashboards :
        /\ reqs[c].resp = Some(Redirect("/dashboard"))
        /\ c \in reqs[l].after /\ l \in reqs[d].after
        /\ reqs[c].sid = reqs[l].sid /\ reqs[l].sid = reqs[d].sid
        /\ reqs[l].resp = Some(Redirect("/login")) /\ reqs[l].err = None
        /\ reqs[d].resp = Some(Redirect("/login"))

(* ---------------------------- C19 -------------------------------------- *)
\* C19: every logout that has been answered was answered with the redirect
\* to /login: when the session held a user record and when it held none,
\* when both removals succeeded and when one of them failed.
C19_LogoutAlwaysRedirectsToLogin ==
    \A l \in Logouts :
        /\ Done(l) => reqs[l].resp = Some(Redirect("/login"))
        /\ IsSome(reqs[l].err) =>
              /\ Done(l)
              /\ Unwrap(reqs[l].err).kind = "InvalidSession"
              /\ reqs[l].resp = Some(IntoResponse(Unwrap(reqs[l].err)))

\* a logout of an authenticated session failed to remove the user record
\* and was answered with the redirect all the same
C19_Witness ==
    \E l \in Logouts, c \in Callbacks :
        /\ c \in reqs[l].after
        /\ reqs[c].sid = reqs[l].sid
        /\ reqs[c].resp = Some(Redirect("/dashboard"))
        /\ RejectedWith(reqs[l], "InvalidSession")
        /\ LastStep(reqs[l]) = "clear_user_session"
        /\ IsSome(session[reqs[l].sid].user)
        /\ reqs[l].resp = Some(Redirect("/login"))

(* ---------------------------- C20 -------------------------------------- *)
\* the session record (user_id, username, provider) of a user
RecordOf(u) == [user_id |-> u.id, username |-> u.username, provider |-> u.provider]

\* C20: the step of a callback that sets the session stores, under the
\* callback's session identifier and over whatever record was there, the
\* user_id, username and provider of the user account resolution returned
\* and nothing else; the callback then completes with the redirect to
\* /dashboard, and that step leaves the record as it is.
C20_SessionRecordOfResolvedUser ==
    [][\A r \in ReqIds :
          /\ (reqs[r].pc = "set_session" /\ Acts(r)) =>
                /\ session'[reqs[r].sid] =
                     [session[reqs[r].sid] EXCEPT
                         !.user = Some(RecordOf(Unwrap(reqs[r].user)))]
                /\ \A s \in Sessions \ {reqs[r].sid} : session'[s] = session[s]
                /\ reqs'[r].pc = "clear_csrf" /\ reqs'[r].resp = None
          /\ (reqs[r].pc = "clear_csrf" /\ Acts(r)) =>
                /\ reqs'[r].resp = Some(Redirect("/dashboard"))
                /\ session'[reqs[r].sid].user = session[reqs[r].sid].user
          /\ (reqs[r].kind = "callback" /\ Acts(r)
              /\ reqs'[r].resp = Some(Redirect("/dashboard"))) =>
                reqs[r].pc = "clear_csrf"]_vars

\* two logins in one session, the second into another account: the
\* session holds the record of the second account and not of the first
C20_Witness ==
    \E r1, r2 \in Callbacks :
        /\ r1 \in reqs[r2].after
        /\ reqs[r1].sid = reqs[r2].sid
        /\ reqs[r1].resp = Some(Redirect("/dashboard"))
        /\ reqs[r2].resp = Some(Redirect("/dashboard"))
        /\ Unwrap(reqs[r1].user).id # Unwrap(reqs[r2].user).id
        /\ session[reqs[r2].sid].user = Some(RecordOf(Unwrap(reqs[r2].user)))
        /\ session[reqs[r2].sid].user # Some(RecordOf(Unwrap(reqs[r1].user)))

(* ---------------------------- C21 -------------------------------------- *)
\* the request r arrives in this step as a logout of session s
LogoutArrives(r, s) ==
    reqs[r].kind = "none" /\ reqs'[r].kind = "logout" /\ reqs'[r].sid = s

\* C21: the user record of a session changes in two kinds of step only:
\* a callback of that session sets it to the snapshot of the user it
\* resolved, or a logout of that session removes it.  A step that writes
\* the users table changes no session record, and neither does any step of
\* another session.
C21_SessionRecordIsSnapshot ==
    [][/\ \A s \in Sessions :
             session'[s].user # session[s].user =>
                \/ \E r \in ReqIds :
                      /\ EstablishesSession(r, s)
                      /\ session'[s].user = Some(RecordOf(Unwrap(reqs[r].user)))
                \/ \E r \in ReqIds :
                      LogoutArrives(r, s) /\ session'[s].user = None
       /\ users' # users =>
             \A s \in Sessions : session'[s].user = session[s].user]_vars

\* the account in the record of one session was logged into again from
\* another session, which moved its last_login; the first session still
\* holds the record it was given
C21_Witness ==
    \E r1, r2 \in Callbacks :
        /\ r1 \in reqs[r2].after
        /\ reqs[r1].sid # reqs[r2].sid
        /\ reqs[r1].resp = Some(Redirect("/dashboard"))
        /\ reqs[r2].resp = Some(Redirect("/dashboard"))
        /\ InTrace(reqs[r2], "update_last_login")
        /\ FoundId(reqs[r2]) = Unwrap(reqs[r1].user).id
        /\ RowOf(reqs[r1]).last_login > Unwrap(reqs[r1].user).last_login
        /\ session[reqs[r1].sid].user = Some(RecordOf(Unwrap(reqs[r1].user)))

(* ---------------------------- C22 -------------------------------------- *)
\* no request takes a step: the step is a login initiation
InitiationStep == \A r \in ReqIds : ~Acts(r)

\* C22: a step of a request changes the CSRF token and the user record of
\* no session but the request's own, and a login initiation changes those
\* of the one session it stores its new token for; what a callback reads
\* as the stored token is the token of its own session, and what a
\* dashboard request answers is decided by the record of its own session.
C22_SessionsAreIndependent ==
    [][/\ \A r \in ReqIds :
             Acts(r) =>
                /\ \A s \in Sessions \ {reqs'[r].sid} : session'[s] = session[s]
                /\ (reqs[r].kind = "none" /\ InTrace(reqs'[r], "verify_state")) =>
                      reqs'[r].stored = session[reqs'[r].sid].csrf
                /\ (reqs[r].kind = "none" /\ reqs'[r].kind = "dashboard") =>
                      (InTrace(reqs'[r], "dashboard_handler")
                          <=> IsSome(session[reqs'[r].sid].user))
       /\ InitiationStep =>
             \A s \in Sessions :
                session'[s] # session[s] =>
                   /\ \A x \in Sessions \ {s} : session'[x] = session[x]
                   /\ session'[s].user = session[s].user
                   /\ \E i \in issued' \ issued :
                         i.sid = s /\ session'[s].csrf = Some(i.token)]_vars

\* two clients started a login each and their callbacks ran side by side:
\* each callback was checked against the token of its own session, so the
\* state issued to the first client was accepted in the first session
\* and refused in the second, which holds no record
C22_Witness ==
    \E r1, r2 \in Callbacks :
        /\ reqs[r1].sid = "s1" /\ reqs[r2].sid = "s2"
        /\ r1 \notin reqs[r2].after /\ r2 \notin reqs[r1].after
        /\ reqs[r1].query.state = reqs[r2].query.state
        /\ reqs[r1].stored = reqs[r1].query.state
        /\ IsSome(reqs[r2].stored)
        /\ Unwrap(reqs[r1].stored) \in IssuedTo("s1")
        /\ Unwrap(reqs[r2].stored) \in IssuedTo("s2")
        /\ reqs[r1].resp = Some(Redirect("/dashboard"))
        /\ RejectedWith(reqs[r2], "StateMismatch")
        /\ session["s1"].user = Some(RecordOf(Unwrap(reqs[r1].user)))
        /\ session["s2"].user = None
        /\ session["s2"].csrf = reqs[r2].stored

(* ---------------------------- C23 -------------------------------------- *)
SessionErrorKinds == {"NotAuthenticated", "SessionExpired", "InvalidSession"}

\* C23: NotAuthenticated, SessionExpired and InvalidSession are answered
\* with 303 to exactly /login, without an error parameter, whatever text
\* the error carries; every request that ended with one of them got that
\* response.
C23_SessionErrorsRedirectToLogin ==
    /\ \A k \in SessionErrorKinds, text \in {"", "store unavailable"} :
          IntoResponse(AuthErr(k, text)) = [status |-> 303, location |-> "/login"]
    /\ \A r \in ReqIds :
          (IsSome(reqs[r].err) /\ Unwrap(reqs[r].err).kind \in SessionErrorKinds) =>
             reqs[r].resp = Some([status |-> 303, location |-> "/login"])

\* a dashboard request ended with NotAuthenticated and a callback with
\* InvalidSession, and both were sent to /login
C23_Witness ==
    \E d \in Dashboards, c \in Callbacks :
        /\ RejectedWith(reqs[d], "NotAuthenticated")
        /\ RejectedWith(reqs[c], "InvalidSession")
        /\ LastStep(reqs[c]) = "set_user_session"
        /\ reqs[d].resp = Some(Redirect("/login"))
        /\ reqs[c].resp = Some(Redirect("/login"))

(* ---------------------------- C24 -------------------------------------- *)
\* error texts of providers, of the HTTP client and of the database
ErrorTexts ==
    {"provider error", "invalid_grant: <html>", "error sending request",
     "HTTP 500", "error decoding response body", "database error"}

ProviderErrorKinds == {"TokenExchange", "ProfileFetch"}

\* the fixed message of a provider error kind, as it appears in the URL
SanitizedLocation(kind) ==
    IF kind = "TokenExchange"
    THEN "/login?error=Failed%20to%20complete%20login.%20Please%20try%20again."
    ELSE "/login?error=Failed%20to%20retrieve%20your%20profile.%20Please%20try%20again."

\* C24: a request that ended with a TokenExchange or a ProfileFetch error
\* was sent the redirect to /login with the fixed message of that kind,
\* whatever the error text was, and the message chosen for an error of
\* that kind is the same for every other error text; so any two requests
\* that ended with errors of the same kind were sent the same response.
C24_ResponseIndependentOfErrorText ==
    /\ \A r \in ReqIds :
          (IsSome(reqs[r].err) /\ Unwrap(reqs[r].err).kind \in ProviderErrorKinds) =>
             /\ reqs[r].resp =
                  Some(Redirect(SanitizedLocation(Unwrap(reqs[r].err).kind)))
             /\ \A t \in ErrorTexts :
                   ErrorMsg(AuthErr(Unwrap(reqs[r].err).kind, t)) =
                      ErrorMsg(Unwrap(reqs[r].err))
    /\ \A r1, r2 \in ReqIds :
          (/\ IsSome(reqs[r1].err) /\ IsSome(reqs[r2].err)
           /\ Unwrap(reqs[r1].err).kind \in ProviderErrorKinds
           /\ Unwrap(reqs[r1].err).kind = Unwrap(reqs[r2].err).kind) =>
              reqs[r1].resp = reqs[r2].resp

\* one callback failed on a provider's HTTP 500 and another on the
\* database: two ProfileFetch errors with different texts, one response
C24_Witness ==
    \E r1, r2 \in Callbacks :
        /\ RejectedWith(reqs[r1], "ProfileFetch")
        /\ RejectedWith(reqs[r2], "ProfileFetch")
        /\ Unwrap(reqs[r1].err).text = "HTTP 500"
        /\ Unwrap(reqs[r2].err).text = "database error"
        /\ reqs[r1].resp = reqs[r2].resp
        /\ IsSome(reqs[r1].resp)

(* ---------------------------- C25 -------------------------------------- *)
\* the login page with the message of a flow error, as it appears in the URL
FlowErrorLocations ==
    {"/login?error=Microsoft%20authentication%20failed.%20Please%20try%20again.",
     "/login?error=GitHub%20authentication%20failed.%20Please%20try%20again.",
     "/login?error=Security%20error%20during%20login.%20Please%20try%20again.",
     "/login?error=Login%20was%20incomplete.%20Please%20try%20again.",
     SanitizedLocation("TokenExchange"),
     SanitizedLocation("ProfileFetch")}

\* C25: every callback that has ended was answered with a 303 redirect:
\* to /dashboard when it ended without an error and without the provider's
\* error parameter, to /login when the session store failed, and to /login
\* with the encoded message of the flow error otherwise.
C25_CallbackAlwaysRedirects ==
    \A r \in Callbacks :
        Done(r) =>
           /\ IsSome(reqs[r].resp)
           /\ Unwrap(reqs[r].resp).status = 303
           /\ IF reqs[r].err = None /\ reqs[r].query.error = None
              THEN Unwrap(reqs[r].resp).location = "/dashboard"
              ELSE IF ErrKind(reqs[r]) = "InvalidSession"
              THEN Unwrap(reqs[r].resp).location = "/login"
              ELSE Unwrap(reqs[r].resp).location \in FlowErrorLocations

\* one callback failed in the database and another in the session store,
\* after the provider calls: both were redirected to the login page
C25_Witness ==
    \E r1, r2 \in Callbacks :
        /\ RejectedWith(reqs[r1], "ProfileFetch")
        /\ Unwrap(reqs[r1].err).text = "database error"
        /\ RejectedWith(reqs[r2], "InvalidSession")
        /\ LastStep(reqs[r2]) = "clear_csrf_token"
        /\ Unwrap(reqs[r1].resp).status = 303
        /\ Unwrap(reqs[r2].resp).location = "/login"

(* ---------------------------- C26 -------------------------------------- *)
\* the provider call a callback makes at each of these places
ProviderCallPcs == {"exchange", "profile"}

\* C26: a callback whose token exchange fails ends with TokenExchange and
\* one whose profile call answers non-2xx or with a body that does not
\* parse ends with ProfileFetch; the failing step changes neither the users
\* table nor the session, and such a callback has reached none of the
\* steps that write a row or the session record.
C26_ProviderFailureLeavesNoTrace ==
    [][\A r \in ReqIds :
          (Acts(r) /\ reqs[r].pc \in ProviderCallPcs /\ IsSome(reqs'[r].err)) =>
             /\ Done(r)'
             /\ reqs[r].pc = "exchange" => ErrKind(reqs'[r]) = "TokenExchange"
             /\ reqs[r].pc = "profile" =>
                   /\ ErrKind(reqs'[r]) = "ProfileFetch"
                   /\ Unwrap(reqs'[r].err).text \in
                         {"HTTP 500", "error decoding response body",
                          "error sending request"}
             /\ users' = users
             /\ session' = session
             /\ \A st \in {"find_by_provider_id", "create_user",
                           "update_last_login", "set_user_session"} :
                   ~InTrace(reqs'[r], st)]_vars

\* one callback failed at the token exchange, one at a profile body that
\* did not parse; there is no user row and no session record
C26_Witness ==
    \E r1, r2 \in Callbacks :
        /\ RejectedWith(reqs[r1], "TokenExchange")
        /\ LastStep(reqs[r1]) = "token_exchange"
        /\ RejectedWith(reqs[r2], "ProfileFetch")
        /\ LastStep(reqs[r2]) = "profile"
        /\ Unwrap(reqs[r2].err).text = "error decoding response body"
        /\ users = << >>
        /\ \A s \in Sessions : session[s].user = None

(* ---------------------------- C27 -------------------------------------- *)
\* C27: every callback attempt comes to an end, rejected or with its
\* session established, also when a provider never answers.
C27_CallbackTerminates ==
    \A r \in ReqIds : (reqs[r].kind = "callback") ~> Done(r)

(* ---------------------------- C28 -------------------------------------- *)
\* the entries of an email list that are both primary and verified
PrimaryVerified(l) == {i \in 1..Len(l) : l[i].primary /\ l[i].verified}

\* C28: for a GitHub callback whose profile was fetched: when the profile
\* carries an email, the email list is not asked for and the resolved email
\* is the profile's; when it carries none, the list is asked for, the
\* resolved email is the address of the (first) entry that is primary and
\* verified, it is unset when the list has no such entry or the list was
\* not delivered, and a list without such an entry does not end the
\* callback with an error.
C28_GitHubEmailResolution ==
    \A r \in ReqIds :
       LET req == reqs[r] IN
       (req.kind = "callback" /\ req.provider = "github" /\ IsSome(req.fetched)) =>
          LET p == Unwrap(req.fetched) IN
          IF IsSome(p.email)
          THEN /\ ~InTrace(req, "emails")
               /\ req.emails = None
               /\ IsSome(req.create)
               /\ Unwrap(req.create).email = p.email
          ELSE /\ InTrace(req, "emails")
               /\ IF IsSome(req.emails)
                  THEN LET l == Unwrap(req.emails)
                           hits == PrimaryVerified(l)
                       IN /\ IsSome(req.create)
                          /\ IF hits = {}
                             THEN Unwrap(req.create).email = None
                             ELSE \E i \in hits :
                                    /\ \A j \in hits : i <= j
                                    /\ Unwrap(req.create).email = Some(l[i].email)
                          /\ req.err = None \/ LastStep(req) # "emails"
                  ELSE IsSome(req.create) => Unwrap(req.create).email = None

\* one GitHub login got its email from the list's primary verified entry
\* and created its account with it; another consulted a list without such
\* an entry and reached the dashboard with the email unset
C28_Witness ==
    \E r1, r2 \in ReqIds :
       /\ r1 # r2
       /\ reqs[r1].kind = "callback" /\ reqs[r1].provider = "github"
       /\ reqs[r1].fetched # None /\ Unwrap(reqs[r1].fetched).email = None
       /\ reqs[r1].emails # None /\ PrimaryVerified(Unwrap(reqs[r1].emails)) # {}
       /\ Unwrap(reqs[r1].create).email = Some("b@x.com")
       /\ InTrace(reqs[r1], "create_user")
       /\ reqs[r1].resp = Some(Redirect("/dashboard"))
       /\ RowOf(reqs[r1]).email = Some("b@x.com")
       /\ reqs[r2].kind = "callback" /\ reqs[r2].provider = "github"
       /\ reqs[r2].emails # None /\ Len(Unwrap(reqs[r2].emails)) > 0
       /\ PrimaryVerified(Unwrap(reqs[r2].emails)) = {}
       /\ Unwrap(reqs[r2].create).email = None
       /\ reqs[r2].resp = Some(Redirect("/dashboard"))

(* ---------------------------- C29 -------------------------------------- *)
\* C29: the CreateUser built from a fetched profile has as username, for
\* Microsoft, the display name, else the user-principal-name, else
\* "Microsoft User", and for GitHub the profile name, else the login; its
\* avatar is unset for Microsoft and the profile's for GitHub; and the row
\* of an account the callback created carries that username and avatar.
C29_UsernameDerivation ==
    \A r \in ReqIds :
       LET req == reqs[r] IN
       (req.kind = "callback" /\ IsSome(req.fetched) /\ IsSome(req.create)) =>
          LET p == Unwrap(req.fetched)
              cu == Unwrap(req.create)
          IN /\ req.provider = "microsoft" =>
                   /\ cu.username =
                         IF p.display_name # None THEN p.display_name[1]
                         ELSE IF p.user_principal_name # None
                              THEN p.user_principal_name[1]
                         ELSE "Microsoft User"
                   /\ cu.avatar_url = None
             /\ req.provider = "github" =>
                   /\ cu.username = IF p.name # None THEN p.name[1] ELSE p.login
                   /\ cu.avatar_url = p.avatar_url
             /\ (InTrace(req, "create_user") /\ IsSome(req.user)) =>
                   /\ RowOf(req).username = cu.username
                   /\ RowOf(req).avatar_url = cu.avatar_url
                   /\ RowOf(req).provider = req.provider

\* a Microsoft account created from a profile with neither name, and a
\* GitHub account created from a profile without a name, with its avatar
C29_Witness ==
    \E r1, r2 \in ReqIds :
       /\ reqs[r1].provider = "microsoft" /\ InTrace(reqs[r1], "create_user")
       /\ IsSome(reqs[r1].user)
       /\ Unwrap(reqs[r1].fetched).display_name = None
       /\ Unwrap(reqs[r1].fetched).user_principal_name = None
       /\ RowOf(reqs[r1]).username = "Microsoft User"
       /\ RowOf(reqs[r1]).avatar_url = None
       /\ reqs[r2].provider = "github" /\ InTrace(reqs[r2], "create_user")
       /\ IsSome(reqs[r2].user)
       /\ Unwrap(reqs[r2].fetched).name = None
       /\ RowOf(reqs[r2]).username = "alice"
       /\ RowOf(reqs[r2]).avatar_url = Some("https://x.com/a.png")

(* ---------------------------- C30 -------------------------------------- *)
\* the values of a sequence
Range(seq) == {seq[i] : i \in 1..Len(seq)}

\* C30: a login initiation that stored its state value answers 303 with the
\* authorization URL of its provider: Microsoft's endpoint with the
\* configured Microsoft client id and the scopes openid, profile and email,
\* or GitHub's endpoint with the configured GitHub client id and the scope
\* user:email; the URL carries the state value that was stored.
C30_InitiationRedirectsToProvider ==
    \A i \in issued :
       /\ i.resp.status = 303
       /\ i.resp.location.state = i.token
       /\ i.provider = "microsoft" =>
             /\ i.resp.location.endpoint =
                   "https://login.microsoftonline.com/common/oauth2/v2.0/authorize"
             /\ i.resp.location.client_id = "ms-client-id"
             /\ {"openid", "profile", "email"} \subseteq Range(i.resp.location.scope)
       /\ i.provider = "github" =>
             /\ i.resp.location.endpoint = "https://github.com/login/oauth/authorize"
             /\ i.resp.location.client_id = "gh-client-id"
             /\ "user:email" \in Range(i.resp.location.scope)

\* a Microsoft and a GitHub login were initiated in the same session, the
\* later one's state value being the one the session holds
C30_Witness ==
    \E i, j \in issued :
       /\ i.provider = "microsoft" /\ j.provider = "github"
       /\ i.sid = j.sid
       /\ \E k \in {i, j} : session[k.sid].csrf = Some(k.token)
       /\ i.resp.location.client_id = Config.microsoft_client_id
       /\ j.resp.location.client_id = Config.github_client_id

C32_IncompleteCallbackRejected ==
    [][\A r \in ReqIds :
          /\ (/\ reqs[r].kind = "none" /\ reqs'[r].kind = "callback"
              /\ reqs'[r].query.error = None
              /\ reqs'[r].query.code = None \/ reqs'[r].query.state = None) =>
                /\ reqs'[r].pc = "done"
                /\ ErrKind(reqs'[r]) =
                      IF reqs'[r].query.code = None THEN "MissingAuthCode"
                      ELSE "StateMismatch"
                /\ reqs'[r].resp = Some(Redirect(
                      IF reqs'[r].query.code = None
                      THEN "/login?error=Login%20was%20incomplete.%20Please%20try%20again."
                      ELSE "/login?error=Security%20error%20during%20login.%20Please%20try%20again."))
                /\ reqs'[r].trace = << >>
                /\ ~CalledProvider(reqs'[r])
                /\ users' = users
                /\ session' = session
          /\ reqs[r].pc = "done" => reqs'[r] = reqs[r]]_vars

\* a callback without code and without state was rejected with
\* MissingAuthCode, and one with a code and no state with StateMismatch,
\* before any step
C32_Witness ==
    \E r1, r2 \in Callbacks :
       /\ reqs[r1].query = [code |-> None, state |-> None, error |-> None]
       /\ RejectedWith(reqs[r1], "MissingAuthCode")
       /\ reqs[r2].query = [code |-> Some("code"), state |-> None, error |-> None]
       /\ RejectedWith(reqs[r2], "StateMismatch")
       /\ reqs[r2].trace = << >>

(* ---------------------------- C33 -------------------------------------- *)
\* the requests whose create_user inserted the row of an identity
Creators(identity) ==
    {c \in ReqIds : /\ reqs[c].kind = "callback"
                    /\ InTrace(reqs[c], "create_user")
                    /\ IsSome(reqs[c].user)
                    /\ Identity(reqs[c]) = identity}

\* C33: find_by_provider_id leaves the table as it is; it returns a user
\* exactly when some callback has created a row for the identity asked
\* for, and that user has the id create_user returned and the provider,
\* provider_id, username, email and avatar that creation was given; for an
\* identity nobody created it returns none.
C33_FindReturnsWhatWasCreated ==
    [][\A r \in ReqIds :
          (reqs[r].pc = "find" /\ Acts(r)) =>
             LET made == Creators(Identity(reqs[r])) IN
             /\ users' = users
             /\ (made = {}) => (reqs'[r].user = None /\ reqs'[r].pc = "create")
             /\ (made # {}) =>
                   /\ reqs'[r].pc = "update"
                   /\ IsSome(reqs'[r].user)
                   /\ \E c \in made :
                         LET u == Unwrap(reqs'[r].user)
                             cu == Unwrap(reqs[c].create)
                         IN /\ u.id = Unwrap(reqs[c].user).id
                            /\ u.provider = cu.provider
                            /\ u.provider_id = cu.provider_id
                            /\ u.username = cu.username
                            /\ u.email = cu.email
                            /\ u.avatar_url = cu.avatar_url]_vars

\* a login found the account an earlier login had created when the
\* provider reported another name: the user found carries the name given
\* at creation
C33_Witness ==
    \E r, c \in Callbacks :
       /\ r # c
       /\ IsSome(reqs[r].create)
       /\ c \in Creators(Identity(reqs[r]))
       /\ InTrace(reqs[r], "find_by_provider_id")
       /\ IsSome(reqs[r].user)
       /\ Unwrap(reqs[r].user).id = Unwrap(reqs[c].user).id
       /\ Unwrap(reqs[r].user).username = Unwrap(reqs[c].create).username
       /\ Unwrap(reqs[r].user).username # Unwrap(reqs[r].create).username

(* ---------------------------- C34 -------------------------------------- *)
\* C34: when a callback has updated last_login of the account it found,
\* the User it goes on with equals the account's row as the update left
\* it, last_login included.
C34_ReturnedUserIsStoredRow ==
    [][\A r \in ReqIds :
          (reqs[r].pc = "update" /\ reqs'[r].pc = "set_session") =>
             Unwrap(reqs'[r].user) = users'[Unwrap(reqs'[r].user).id]]_vars

(* ---------------------------- C35 -------------------------------------- *)
\* C35: a callback let through the state check on a stored token is a
\* callback of the provider whose login initiation stored that token.
C35_TokenBoundToProvider ==
    \A r \in Callbacks :
       (PassedVerification(reqs[r]) /\ IsSome(reqs[r].stored)) =>
          \A i \in issued :
             i.token = Unwrap(reqs[r].stored) => i.provider = reqs[r].provider

(* ---------------------------- C36 -------------------------------------- *)
\* C36: when the login initiation whose token a callback found stored sent
\* a PKCE challenge in its authorization URL, the token request of that
\* callback carries a PKCE verifier.
C36_PkceVerifierSent ==
    \A r \in Callbacks :
       IsSome(reqs[r].exchange) =>
          \A i \in issued :
             (/\ i.sid = reqs[r].sid
              /\ reqs[r].stored = Some(i.token)
              /\ i.provider = reqs[r].provider
              /\ IsSome(i.resp.location.code_challenge_method)) =>
                IsSome(Unwrap(reqs[r].exchange).code_verifier)

(* ---------------------------- C37 -------------------------------------- *)
\* C37: a callback that arrives with a code and with a state value that was
\* issued to its session before a later login initiation of that session
\* is rejected with StateMismatch.
C37_EarlierStateRejected ==
    [][\A r \in ReqIds :
          (/\ reqs[r].kind = "none" /\ reqs'[r].kind = "callback"
           /\ reqs'[r].query.error = None
           /\ IsSome(reqs'[r].query.code)
           /\ IsSome(reqs'[r].query.state)
           /\ \E i, j \in issued :
                 /\ i.sid = reqs'[r].sid /\ j.sid = reqs'[r].sid
                 /\ i.token < j.token
                 /\ reqs'[r].query.state = Some(i.token)) =>
             RejectedWith(reqs'[r], "StateMismatch")]_vars

(* ---------------------------- C38 -------------------------------------- *)
\* C38: the user record of every session names an account in the table:
\* its user_id is the id of a row, and that row has the record's provider
\* and the record's username.
C38_SessionRecordNamesAccount ==
    \A s \in Sessions :
       IsSome(session[s].user) =>
          LET d == Unwrap(session[s].user) IN
          /\ d.user_id \in 1..Len(users)
          /\ users[d.user_id].id = d.user_id
          /\ users[d.user_id].provider = d.provider
          /\ users[d.user_id].username = d.username

\* the record was written by a login into an account that existed, made
\* when the provider reported another name than at creation: the record
\* and the row agree on the name given at creation
C38_Witness ==
    \E r \in Callbacks :
       /\ InTrace(reqs[r], "update_last_login")
       /\ WroteSession(reqs[r])
       /\ IsSome(session[reqs[r].sid].user)
       /\ Unwrap(session[reqs[r].sid].user).user_id = Unwrap(reqs[r].user).id
       /\ Unwrap(session[reqs[r].sid].user).username # Unwrap(reqs[r].create).username
       /\ users[Unwrap(reqs[r].user).id].last_login > users[Unwrap(reqs[r].user).id].created_at

=============================================================================
